---- MODULE Spec2Model ----
(***************************************************************************)
(* Model of src/bot.py: a relay between private correspondents and the     *)
(* forum topics of one staff group.  The state is the two mapping          *)
(* dictionaries with their JSON snapshot, the media-group (album) buffers  *)
(* with their flush tasks, and the position of the update handler that is  *)
(* currently running.  Handlers run one at a time (the Application is      *)
(* built without concurrent updates); flush tasks run on the same event    *)
(* loop and interleave with the handler at every await.                    *)
(*                                                                         *)
(* Time is counted in ticks.  asyncio.sleep(1.0) lasts Delay ticks; a      *)
(* sleeping task whose timer has run out is resumed before the clock       *)
(* advances again.  Transport calls (await context.bot....) take any       *)
(* number of ticks and return normally; only create_forum_topic has a      *)
(* failure path in the source (the except clause of get_or_create_topic).  *)
(***************************************************************************)
EXTENDS Integers, Sequences, FiniteSets, TLC

(* ------------------------------ bounds -------------------------------- *)
MaxUpdates == 3      \* updates delivered in one behaviour of Spec
TicksPerSecond == 2  \* clock resolution
MaxStoreUpdates == 2 \* updates delivered in one behaviour of SpecStore
MaxBatch == 23       \* updates delivered in one behaviour of SpecBatch
MaxLate == 1         \* members that come after the first flush in SpecBatch
MaxLiveUpdates == 2  \* updates delivered in one behaviour of SpecLive
MaxFlushTasks == 2   \* flush tasks scheduled in one behaviour of SpecFlush
MaxSingleUpdates == 2 \* updates delivered in one behaviour of SpecSingle

(* ------------------------- program constants -------------------------- *)
GROUP_CHAT_ID == 100
BOT_ID == 99
ChunkSize == 10
Delay == 1 * TicksPerSecond

None == 0            \* Python's None; every real id is positive

Users == {1, 2}                      \* correspondents
InitTopics == {1, 2}                 \* threads the group has when the bot starts
GroupIds == {"1", "2"}               \* media_group_id values; "" is absent

VARIABLES
  user_topics,        \* dict user id -> [topic_id, username]
  topic_to_user,      \* dict topic id -> user id
  disk,               \* USER_TOPICS_FILE: [state, user_topics, topic_to_user]
  media_groups,       \* dict key -> sequence of messages
  media_group_tasks,  \* dict key -> index into tasks
  tasks,              \* sequence of flush tasks, in creation order
  handler,            \* the running handler: [pc, fn, msg, username, topic_id]
  out,                \* transport calls issued by the last step
  last,               \* what the last step did (history)
  nextTopic,          \* next thread id create_forum_topic hands out
  nmsg,               \* updates delivered so far
  created,            \* user id -> create_forum_topic calls made for it (history)
  nsaves,             \* save_maps calls so far (history)
  flushed,            \* key -> flushes that took a non-empty buffer (history)
  owner,              \* media_group_id -> the album's direction and sender (history)
  inbound             \* the update the last step delivered, if any (history)

vars == <<user_topics, topic_to_user, disk, media_groups, media_group_tasks,
          tasks, handler, out, last, nextTopic, nmsg, created, nsaves, flushed,
          owner, inbound>>

(* ------------------------------ helpers ------------------------------- *)
Min(a, b) == IF a <= b THEN a ELSE b

\* mutant of DictPop: clear() instead of pop(key)
DictClear(d, k) == <<>>

\* dict.pop(key, default): the dictionary without the key
DictPop(d, k) == [x \in DOMAIN d \ {k} |-> d[x]]

\* d[k] = v on a dictionary
DictPut(d, k, v) == [x \in DOMAIN d \cup {k} |-> IF x = k THEN v ELSE d[x]]

\* dict.get(key): None when absent
DictGet(d, k) == IF k \in DOMAIN d THEN d[k] ELSE None

RECURSIVE Flatten(_)
Flatten(ss) == IF ss = <<>> THEN <<>> ELSE Head(ss) \o Flatten(Tail(ss))

\* int(k) on the decimal strings json writes for keys
ParseInt(s) == CHOOSE n \in 0..(MaxUpdates + MaxBatch + 8) : ToString(n) = s

(* --------------------------- persistence ------------------------------ *)
\* mutant of json_dump: a record whose topic_id is None is left out
JsonDumpDropNull(ut, tu) ==
  [state |-> "ok",
   user_topics |-> [s \in {ToString(k) : k \in {x \in DOMAIN ut : ut[x].topic_id # None}}
                      |-> ut[ParseInt(s)]],
   topic_to_user |-> [s \in {ToString(k) : k \in DOMAIN tu} |-> tu[ParseInt(s)]]]

\* json.dump of {"user_topics": ..., "topic_to_user": ...}: integer keys
\* become strings, values are kept (None becomes null and back).
json_dump(ut, tu) ==
  [state |-> "ok",
   user_topics |-> [s \in {ToString(k) : k \in DOMAIN ut} |-> ut[ParseInt(s)]],
   topic_to_user |-> [s \in {ToString(k) : k \in DOMAIN tu} |-> tu[ParseInt(s)]]]

NoFile == [state |-> "absent", user_topics |-> <<>>, topic_to_user |-> <<>>]
Garbled == [state |-> "corrupt", user_topics |-> <<>>, topic_to_user |-> <<>>]

\* load_maps: the pair of dictionaries read from the file
load_maps(file) ==
  IF file.state = "ok"
    THEN [user_topics |-> [k \in {ParseInt(s) : s \in DOMAIN file.user_topics}
                             |-> file.user_topics[ToString(k)]],
          topic_to_user |-> [k \in {ParseInt(s) : s \in DOMAIN file.topic_to_user}
                             |-> file.topic_to_user[ToString(k)]]]
    ELSE [user_topics |-> <<>>, topic_to_user |-> <<>>]

\* outcomes of one save_maps call: the file rewritten, the open failing
\* (file untouched), or the write failing after the file was truncated
SaveOutcomes == {"ok", "stale", "corrupt"}

\* mutant of save_maps: the snapshot is not rewritten
SaveNothing(old, ut, tu, res) == old

save_maps(old, ut, tu, res) ==
  CASE res = "ok" -> json_dump(ut, tu)
    [] res = "stale" -> old
    [] OTHER -> Garbled

\* the record of a step kept in last: the operation, how it ended, the
\* key, task, correspondent and thread it was about, and the outcome of the
\* save_maps call it made ("" when it made none)
Ev(op, route, key, task, user, thread, saved) ==
  [op |-> op, route |-> route, key |-> key, task |-> task, user |-> user,
   thread |-> thread, saved |-> saved]

(* ------------------------------ messages ------------------------------ *)
\* A telegram Message, reduced to the attributes the handlers read.
\* from_id: msg.from_user.id; thread: msg.message_thread_id;
\* reply_from: msg.reply_to_message.from_user.id (None when not a reply);
\* group: msg.media_group_id; text/photo/video/document/voice: whether the
\* attribute is set; caption: msg.caption ("" when unset).
Message(id, from, chat, thread, reply, group, c) ==
  [id |-> id, from_id |-> from, chat_id |-> chat, thread |-> thread,
   reply_from |-> reply, group |-> group,
   text |-> c.text, photo |-> c.photo, video |-> c.video,
   document |-> c.document, voice |-> c.voice, caption |-> c.caption]

Content(t, p, v, d, o, cap) ==
  [text |-> t, photo |-> p, video |-> v, document |-> d, voice |-> o, caption |-> cap]

\* no message
NoMsg == Message(0, None, None, None, None, "", Content(FALSE, FALSE, FALSE, FALSE, FALSE, ""))

\* _username_from_update: the username, else the full name, else the
\* fallback label (the full name is not modelled: it is empty here)
_username_from_update(name) == IF name # "" THEN name ELSE "guest"

(* ------------------------- outbound dispatcher ------------------------ *)
\* mutant of _chunk: range(0, len(lst) - size + 1, size), which loses the
\* last, shorter chunk
ChunkWithoutRest(lst, size) ==
  [j \in 1..(Len(lst) \div size) |-> SubSeq(lst, (j - 1) * size + 1, j * size)]

\* _chunk: [lst[i:i+size] for i in range(0, len(lst), size)]
_chunk(lst, size) ==
  [j \in 1..((Len(lst) + size - 1) \div size) |->
     SubSeq(lst, (j - 1) * size + 1, Min(j * size, Len(lst)))]

\* _first_non_empty_caption: caption of the first message that has one
_first_non_empty_caption(msgs) ==
  IF \E i \in 1..Len(msgs) : msgs[i].caption # ""
    THEN msgs[CHOOSE i \in 1..Len(msgs) :
                /\ msgs[i].caption # ""
                /\ \A j \in 1..(i - 1) : msgs[j].caption = ""].caption
    ELSE ""

\* one pass of the loop "for i, m in enumerate(msgs)": the entry appended
\* for message i (Python index i - 1), or nothing
MediaEntry(m, i, first_caption) ==
  LET cap == IF i = 1 THEN first_caption ELSE ""
  IN  IF m.photo THEN <<[type |-> "photo", media |-> m.id, caption |-> cap]>>
      ELSE IF m.video THEN <<[type |-> "video", media |-> m.id, caption |-> cap]>>
      ELSE IF m.document THEN <<[type |-> "document", media |-> m.id, caption |-> cap]>>
      ELSE <<>>

RECURSIVE MediaUpTo(_, _, _)
MediaUpTo(msgs, n, first_caption) ==
  IF n = 0 THEN <<>>
  ELSE MediaUpTo(msgs, n - 1, first_caption) \o MediaEntry(msgs[n], n, first_caption)

\* media_all as built by process_media_group_UG / _GU
media_all(msgs) == MediaUpTo(msgs, Len(msgs), _first_non_empty_caption(msgs))

\* the send_media_group call of one chunk of the messages msgs; origin (the
\* senders of the messages the call carries) is history
BatchCall(t, part, msgs) ==
  [op |-> "send_media_group",
   chat_id |-> IF t.fn = "UG" THEN GROUP_CHAT_ID ELSE t.target,
   thread |-> IF t.fn = "UG" THEN t.target ELSE None,
   media |-> part, label |-> "", caption |-> "",
   origin |-> {msgs[j].from_id : j \in 1..Len(msgs)}]

(* ------------------------ aggregation scheduler ----------------------- *)
\* f"UG:{msg.media_group_id}" / f"GU:{msg.media_group_id}"
KeyOf(fn, group) == fn \o ":" \o group

\* context.application.create_task(process_media_group_XX(...)): the task
\* starts at once and sleeps.  born, enq and lastAt are history: ticks
\* since the task was created, the ids of the messages enqueued while it was
\* registered, and the value of born when the latest of them came.
NewTask(fn, key, target, username) ==
  [fn |-> fn, key |-> key, target |-> target, username |-> username,
   pc |-> "sleep", timer |-> Delay,
   msgs |-> <<>>, parts |-> <<>>, calls |-> <<>>,
   born |-> 0, enq |-> <<>>, lastAt |-> 0]

\* mutant of BufferAppend: insert(0, msg)
BufferPrepend(mg, key, m) ==
  IF key \in DOMAIN mg THEN [mg EXCEPT ![key] = <<m>> \o @]
  ELSE DictPut(mg, key, <<m>>)

\* media_groups[key].append(msg) on the defaultdict
BufferAppend(mg, key, m) ==
  IF key \in DOMAIN mg THEN [mg EXCEPT ![key] = Append(@, m)]
  ELSE DictPut(mg, key, <<m>>)

\* mutant of NeedsTask: a task for every message
AlwaysNeedsTask(mgt, key) == TRUE

\* "if key not in media_group_tasks": whether a task has to be created
NeedsTask(mgt, key) == key \notin DOMAIN mgt

\* mutant of Enqueue: the message is buffered, no task is registered
EnqueueNoTask(fn, m, target, username) ==
  /\ media_groups' = BufferAppend(media_groups, KeyOf(fn, m.group), m)
  /\ UNCHANGED <<media_group_tasks, tasks>>

\* mutant of Enqueue: every message restarts the delay (a sliding window)
EnqueueSliding(fn, m, target, username) ==
  LET key == KeyOf(fn, m.group)
      fresh == key \notin DOMAIN media_group_tasks
      tid == IF fresh THEN Len(tasks) + 1 ELSE media_group_tasks[key]
      ts == IF fresh THEN Append(tasks, NewTask(fn, key, target, username))
            ELSE tasks
  IN  /\ media_groups' = BufferAppend(media_groups, key, m)
      /\ media_group_tasks' = IF fresh THEN DictPut(media_group_tasks, key, tid)
                              ELSE media_group_tasks
      /\ tasks' = [ts EXCEPT ![tid].enq = Append(@, m.id),
                              ![tid].lastAt = ts[tid].born,
                              ![tid].timer = Delay]

\* lines 184-188 / 252-256: append, then register a task if none is
Enqueue(fn, m, target, username) ==
  LET key == KeyOf(fn, m.group)
      fresh == NeedsTask(media_group_tasks, key)
      tid == IF fresh THEN Len(tasks) + 1 ELSE media_group_tasks[key]
      ts == IF fresh THEN Append(tasks, NewTask(fn, key, target, username))
            ELSE tasks
  IN  /\ media_groups' = BufferAppend(media_groups, key, m)
      /\ media_group_tasks' = IF fresh THEN DictPut(media_group_tasks, key, tid)
                              ELSE media_group_tasks
      /\ tasks' = [ts EXCEPT ![tid].enq = Append(@, m.id),
                              ![tid].lastAt = ts[tid].born]

\* mutant of TakeBuffer: the buffer is dropped, the flush gets nothing
TakeNothing(mg, key) == <<>>

\* msgs = media_groups.pop(key, [])
TakeBuffer(mg, key) == IF key \in DOMAIN mg THEN mg[key] ELSE <<>>

\* process_media_group_UG/_GU from the end of the sleep to the first await
\* of send_media_group (or to the return)
FlushWake(i) ==
  LET t == tasks[i]
      msgs == TakeBuffer(media_groups, t.key)
      parts == _chunk(media_all(msgs), ChunkSize)
  IN  /\ t.pc = "sleep"
      /\ t.timer = 0
      /\ media_groups' = DictPop(media_groups, t.key)
      /\ media_group_tasks' = DictPop(media_group_tasks, t.key)
      /\ flushed' = IF msgs # <<>>
                      THEN DictPut(flushed, t.key, DictGet(flushed, t.key) + 1)
                      ELSE flushed
      /\ IF msgs = <<>> \/ parts = <<>>
           THEN /\ tasks' = [tasks EXCEPT ![i].pc = "done", ![i].msgs = msgs]
                /\ out' = <<>>
           ELSE /\ tasks' = [tasks EXCEPT ![i].pc = "send", ![i].msgs = msgs,
                                          ![i].parts = Tail(parts),
                                          ![i].calls = <<Head(parts)>>]
                /\ out' = <<BatchCall(t, Head(parts), msgs)>>
      /\ last' = Ev("flush", IF msgs = <<>> THEN "noop" ELSE "taken", t.key, i, None, None, "")
      /\ inbound' = NoMsg
      /\ UNCHANGED <<user_topics, topic_to_user, disk, handler, nextTopic,
                     nmsg, created, nsaves, owner>>

\* the awaited send_media_group returns: next chunk, or the task ends
FlushSent(i) ==
  LET t == tasks[i]
  IN  /\ t.pc = "send"
      /\ IF t.parts = <<>>
           THEN /\ tasks' = [tasks EXCEPT ![i].pc = "done"]
                /\ out' = <<>>
           ELSE /\ tasks' = [tasks EXCEPT ![i].parts = Tail(@),
                                          ![i].calls = Append(@, Head(t.parts))]
                /\ out' = <<BatchCall(t, Head(t.parts), t.msgs)>>
      /\ last' = Ev("sent", IF t.parts = <<>> THEN "done" ELSE "next", t.key, i, None, None, "")
      /\ inbound' = NoMsg
      /\ UNCHANGED <<user_topics, topic_to_user, disk, media_groups,
                     media_group_tasks, handler, nextTopic, nmsg, created,
                     nsaves, flushed, owner>>

\* one tick of the clock: possible while some task sleeps and none is due
Tick ==
  /\ \E i \in 1..Len(tasks) : tasks[i].pc = "sleep"
  /\ \A i \in 1..Len(tasks) : tasks[i].pc = "sleep" => tasks[i].timer > 0
  /\ tasks' = [i \in 1..Len(tasks) |->
                 IF tasks[i].pc = "sleep"
                   THEN [tasks[i] EXCEPT !.timer = @ - 1, !.born = @ + 1]
                   ELSE tasks[i]]
  /\ out' = <<>>
  /\ last' = Ev("tick", "", "", 0, None, None, "")
  /\ inbound' = NoMsg
  /\ UNCHANGED <<user_topics, topic_to_user, disk, media_groups,
                 media_group_tasks, handler, nextTopic, nmsg, created,
                 nsaves, flushed, owner>>

(* --------------------------- routing engine --------------------------- *)
Idle == [pc |-> "idle", fn |-> "", msg |-> NoMsg, username |-> "", target |-> None]

\* mutant of SingleKind: the photo test comes before the text test
SingleKindPhotoFirst(m) ==
  IF m.photo THEN "photo"
  ELSE IF m.text THEN "text"
  ELSE IF m.video THEN "video"
  ELSE IF m.document THEN "document"
  ELSE IF m.voice THEN "voice"
  ELSE "none"

\* the content kind a single (non-album) message is sent as: the order of
\* the if-chain of handle_private / handle_group
SingleKind(m) ==
  IF m.text THEN "text"
  ELSE IF m.photo THEN "photo"
  ELSE IF m.video THEN "video"
  ELSE IF m.document THEN "document"
  ELSE IF m.voice THEN "voice"
  ELSE "none"

SendOp(kind) ==
  CASE kind = "text" -> "send_message"
    [] kind = "photo" -> "send_photo"
    [] kind = "video" -> "send_video"
    [] kind = "document" -> "send_document"
    [] OTHER -> "send_voice"

\* lines 191-226: the single send of handle_private.  label is the
\* provenance prefix put in front of the text or caption.
PrivateSend(m, topic_id, username) ==
  [op |-> SendOp(SingleKind(m)), chat_id |-> GROUP_CHAT_ID, thread |-> topic_id,
   media |-> m.id, label |-> username,
   caption |-> IF SingleKind(m) = "text" THEN "" ELSE m.caption,
   origin |-> {m.from_id}]

\* lines 259-270: the single send of handle_group, verbatim
GroupSend(m, user_id) ==
  [op |-> SendOp(SingleKind(m)), chat_id |-> user_id, thread |-> None,
   media |-> m.id, label |-> "",
   caption |-> IF SingleKind(m) = "text" THEN "" ELSE m.caption,
   origin |-> {m.from_id}]

\* lines 182-226 of handle_private, after get_or_create_topic returned
PrivateRoute(m, topic_id, username, how, res) ==
  IF m.group # ""
    THEN /\ Enqueue("UG", m, topic_id, username)
         /\ handler' = Idle
         /\ out' = <<>>
         /\ last' = Ev(how, IF NeedsTask(media_group_tasks, KeyOf("UG", m.group))
                              THEN "enqueue_new" ELSE "enqueue",
                       KeyOf("UG", m.group), 0, m.from_id, topic_id, res)
    ELSE /\ UNCHANGED <<media_groups, media_group_tasks, tasks>>
         /\ IF SingleKind(m) = "none"
              THEN /\ handler' = Idle
                   /\ out' = <<>>
                   /\ last' = Ev(how, "ignored", "", 0, m.from_id, topic_id, res)
              ELSE /\ handler' = [pc |-> "send", fn |-> "private", msg |-> m,
                                  username |-> username, target |-> topic_id]
                   /\ out' = <<PrivateSend(m, topic_id, username)>>
                   /\ last' = Ev(how, "single", "", 0, m.from_id, topic_id, res)

\* mutant of KnownUser: the test is missing
KnownUserNever(ut, user_id) == FALSE

\* mutant of KnownUser: a record without topic does not count
KnownUserWithTopic(ut, user_id) ==
  IF user_id \in DOMAIN ut THEN ut[user_id].topic_id # None ELSE FALSE

\* "if user_id in user_topics" of get_or_create_topic
KnownUser(ut, user_id) == user_id \in DOMAIN ut

\* handle_private up to its first await: for a known correspondent the
\* label refresh and the routing; for a new one the create_forum_topic call.
\* res is the outcome of the save_maps call the step makes, if it makes one.
HandlePrivate(m, name, res) ==
  LET username == _username_from_update(name)
      u == m.from_id
  IN  /\ handler.pc = "idle"
      /\ nmsg' = nmsg + 1
      /\ inbound' = m
      /\ owner' = IF m.group # "" THEN DictPut(owner, m.group, <<"UG", u>>) ELSE owner
      /\ UNCHANGED <<topic_to_user, nextTopic, flushed>>
      /\ IF KnownUser(user_topics, u)
           THEN /\ user_topics' = [user_topics EXCEPT ![u].username = username]
                /\ disk' = save_maps(disk, user_topics', topic_to_user', res)
                /\ nsaves' = nsaves + 1
                /\ created' = created
                /\ PrivateRoute(m, user_topics[u].topic_id, username, "private", res)
           ELSE /\ handler' = [pc |-> "create", fn |-> "private", msg |-> m,
                               username |-> username, target |-> None]
                /\ out' = <<[op |-> "create_forum_topic", chat_id |-> GROUP_CHAT_ID,
                             thread |-> None, media |-> 0, label |-> username,
                             caption |-> "", origin |-> {u}]>>
                /\ created' = [created EXCEPT ![u] = @ + 1]
                /\ last' = Ev("create_call", "", "", 0, u, None, "")
                /\ UNCHANGED <<user_topics, disk, nsaves, media_groups,
                               media_group_tasks, tasks>>

\* create_forum_topic returned a topic: lines 163-167, then the routing
TopicCreated(res) ==
  LET m == handler.msg
      u == m.from_id
      topic_id == nextTopic
  IN  /\ handler.pc = "create"
      /\ nextTopic' = nextTopic + 1
      /\ user_topics' = DictPut(user_topics, u,
                                [topic_id |-> topic_id, username |-> handler.username])
      /\ topic_to_user' = DictPut(topic_to_user, topic_id, u)
      /\ disk' = save_maps(disk, user_topics', topic_to_user', res)
      /\ nsaves' = nsaves + 1
      /\ PrivateRoute(m, topic_id, handler.username, "created", res)
      /\ inbound' = NoMsg
      /\ UNCHANGED <<nmsg, created, flushed, owner>>

\* create_forum_topic raised TelegramError: lines 168-172, then the routing
TopicFailed(res) ==
  LET m == handler.msg
      u == m.from_id
  IN  /\ handler.pc = "create"
      /\ user_topics' = DictPut(user_topics, u,
                                [topic_id |-> None, username |-> handler.username])
      /\ topic_to_user' = topic_to_user
      /\ disk' = save_maps(disk, user_topics', topic_to_user', res)
      /\ nsaves' = nsaves + 1
      /\ PrivateRoute(m, None, handler.username, "create_failed", res)
      /\ inbound' = NoMsg
      /\ UNCHANGED <<nextTopic, nmsg, created, flushed, owner>>

\* the awaited single send returns and the handler ends
HandlerReturn ==
  /\ handler.pc = "send"
  /\ handler' = Idle
  /\ out' = <<>>
  /\ last' = Ev("returned", handler.fn, "", 0, None, None, "")
  /\ inbound' = NoMsg
  /\ UNCHANGED <<user_topics, topic_to_user, disk, media_groups,
                 media_group_tasks, tasks, nextTopic, nmsg, created, nsaves,
                 flushed, owner>>

\* mutant of Authorized: a reply to any message passes
AuthorizedAnyReply(m) ==
  /\ m.chat_id = GROUP_CHAT_ID
  /\ m.thread # None
  /\ m.reply_from # None

\* line 232 and line 234: the checks a group message has to pass
Authorized(m) ==
  /\ m.chat_id = GROUP_CHAT_ID
  /\ m.thread # None
  /\ m.reply_from = BOT_ID

\* mutant of RepairScan: the scan compares the user id with the topic
RepairScanByUser(ut, topic_id) == {u \in DOMAIN ut : u = topic_id /\ ut[u].topic_id = u}

\* mutant of RepairScan: the scan takes any record
RepairScanAny(ut, topic_id) == DOMAIN ut

\* lines 240-245: the correspondents whose record holds the topic (the loop
\* takes the first it meets; Init and TopicCreated keep them to one at most)
RepairScan(ut, topic_id) == {u \in DOMAIN ut : ut[u].topic_id = topic_id}

\* handle_group up to its first await
HandleGroup(m, res) ==
  LET topic_id == m.thread
      direct == DictGet(topic_to_user, topic_id)
      found == RepairScan(user_topics, topic_id)
      repair == direct = None /\ found # {}
      user_id == IF direct # None THEN direct
                 ELSE IF found # {} THEN CHOOSE u \in found : \A v \in found : u <= v
                 ELSE None
      saved == IF repair THEN res ELSE ""
  IN  /\ handler.pc = "idle"
      /\ nmsg' = nmsg + 1
      /\ inbound' = m
      /\ owner' = IF m.group # "" THEN DictPut(owner, m.group, <<"GU", m.thread>>) ELSE owner
      /\ UNCHANGED <<user_topics, nextTopic, created, flushed>>
      /\ IF ~Authorized(m)
           THEN /\ handler' = Idle
                /\ out' = <<>>
                /\ last' = Ev("group", "discarded", "", 0, None, m.thread, "")
                /\ UNCHANGED <<topic_to_user, disk, nsaves, media_groups,
                               media_group_tasks, tasks>>
           ELSE /\ IF repair
                     THEN /\ topic_to_user' = DictPut(topic_to_user, topic_id, user_id)
                          /\ disk' = save_maps(disk, user_topics, topic_to_user', res)
                          /\ nsaves' = nsaves + 1
                     ELSE UNCHANGED <<topic_to_user, disk, nsaves>>
                /\ IF user_id = None
                     THEN /\ handler' = Idle
                          /\ out' = <<>>
                          /\ last' = Ev("group", "unroutable", "", 0, None, topic_id, "")
                          /\ UNCHANGED <<media_groups, media_group_tasks, tasks>>
                     ELSE IF m.group # ""
                       THEN /\ Enqueue("GU", m, user_id, "")
                            /\ handler' = Idle
                            /\ out' = <<>>
                            /\ last' = Ev(IF repair THEN "group_repair" ELSE "group",
                                          IF NeedsTask(media_group_tasks, KeyOf("GU", m.group))
                                            THEN "enqueue_new" ELSE "enqueue",
                                          KeyOf("GU", m.group), 0, user_id, topic_id, saved)
                       ELSE /\ UNCHANGED <<media_groups, media_group_tasks, tasks>>
                            /\ IF SingleKind(m) = "none"
                                 THEN /\ handler' = Idle
                                      /\ out' = <<>>
                                      /\ last' = Ev(IF repair THEN "group_repair" ELSE "group",
                                                    "ignored", "", 0, user_id, topic_id, saved)
                                 ELSE /\ handler' = [pc |-> "send", fn |-> "group", msg |-> m,
                                                     username |-> "", target |-> user_id]
                                      /\ out' = <<GroupSend(m, user_id)>>
                                      /\ last' = Ev(IF repair THEN "group_repair" ELSE "group",
                                                    "single", "", 0, user_id, topic_id, saved)

(* ------------------------- initial state, inputs ---------------------- *)
\* The snapshots main() may find: per correspondent no record, a record
\* without topic (degraded) or a record with a topic of its own; the reverse
\* index may lack entries (it is rebuilt on demand) but holds no wrong one.
InitAssignments ==
  {a \in [Users -> {-1, None} \cup InitTopics] :
     \A u, v \in Users : (u # v /\ a[u] > 0) => a[u] # a[v]}

StoreOf(a, rev) ==
  [user_topics |-> [u \in {x \in Users : a[x] # -1} |->
                      [topic_id |-> a[u], username |-> "a"]],
   topic_to_user |-> [t \in {a[x] : x \in rev} |->
                        CHOOSE x \in rev : a[x] = t]]

InitStores ==
  UNION {{StoreOf(a, rev) : rev \in SUBSET {x \in Users : a[x] > 0}} :
           a \in InitAssignments}

FileOf(st) == json_dump(st.user_topics, st.topic_to_user)

\* main(): load_maps(), then polling starts with nothing buffered
InitFrom(files) ==
  /\ disk \in files
  /\ user_topics = load_maps(disk).user_topics
  /\ topic_to_user = load_maps(disk).topic_to_user
  /\ media_groups = <<>>
  /\ media_group_tasks = <<>>
  /\ tasks = <<>>
  /\ handler = Idle
  /\ out = <<>>
  /\ last = Ev("init", "", "", 0, None, None, "")
  /\ nextTopic = Cardinality(InitTopics) + 1
  /\ nmsg = 0
  /\ created = [u \in Users |-> 0]
  /\ nsaves = 0
  /\ flushed = <<>>
  /\ owner = <<>>
  /\ inbound = NoMsg

Text == Content(TRUE, FALSE, FALSE, FALSE, FALSE, "")
Photo(cap) == Content(FALSE, TRUE, FALSE, FALSE, FALSE, cap)
Video(cap) == Content(FALSE, FALSE, TRUE, FALSE, FALSE, cap)
Document(cap) == Content(FALSE, FALSE, FALSE, TRUE, FALSE, cap)
Voice(cap) == Content(FALSE, FALSE, FALSE, FALSE, TRUE, cap)
Sticker == Content(FALSE, FALSE, FALSE, FALSE, FALSE, "")

\* an album id belongs to one album: one direction and one sender or thread
AlbumOk(group, fn, who) ==
  IF group = "" \/ group \notin DOMAIN owner THEN TRUE ELSE owner[group] = <<fn, who>>

\* a private message of correspondent u
PrivateMsg(u, g, c) == Message(nmsg + 1, u, u, None, None, g, c)

\* a message of a staff member (user id BOT_ID - 1) in a chat
GroupMsg(chat, thread, reply, g, c) == Message(nmsg + 1, BOT_ID - 1, chat, thread, reply, g, c)

\* where group messages come from (chat, thread, author of the message
\* replied to): replies to the bot in an existing thread of the group, with
\* or without album id, and one plain message for each way to fail line 232
\* or line 234
GroupShapes(g) ==
  {<<GROUP_CHAT_ID, t, BOT_ID>> : t \in 1..(nextTopic - 1)} \cup
  (IF g # "" THEN {}
   ELSE {<<GROUP_CHAT_ID + 1, 1, BOT_ID>>, <<GROUP_CHAT_ID, None, BOT_ID>>,
         <<GROUP_CHAT_ID, 1, None>>, <<GROUP_CHAT_ID, 1, BOT_ID - 1>>})

(* --------- Spec: routing and aggregation, snapshot writes succeed ------ *)
\* the bot starts without a file, or with a snapshot that knows
\* correspondent 1 only (with topic 1 or degraded)
SpecStores ==
  {st \in InitStores : /\ DOMAIN st.user_topics = {1}
                       /\ st.user_topics[1].topic_id \in {None, 1}}

Init == InitFrom({NoFile} \cup {FileOf(st) : st \in SpecStores})

\* single messages are texts, album members are photos
Contents(g) == IF g = "" THEN {Text} ELSE {Photo("")}

PrivateUpdate ==
  /\ nmsg < MaxUpdates
  /\ \E u \in Users, g \in {""} \cup GroupIds :
       \E c \in Contents(g) :
         /\ AlbumOk(g, "UG", u)
         /\ HandlePrivate(PrivateMsg(u, g, c), "a", "ok")

GroupUpdate ==
  /\ nmsg < MaxUpdates
  /\ \E g \in {""} \cup GroupIds :
       \E sh \in GroupShapes(g), c \in Contents(g) :
         /\ AlbumOk(g, "GU", sh[2])
         /\ HandleGroup(GroupMsg(sh[1], sh[2], sh[3], g, c), "ok")

Next ==
  \/ PrivateUpdate
  \/ TopicCreated("ok")
  \/ TopicFailed("ok")
  \/ HandlerReturn
  \/ GroupUpdate
  \/ \E i \in 1..Len(tasks) : FlushWake(i)
  \/ \E i \in 1..Len(tasks) : FlushSent(i)
  \/ Tick

Spec == Init /\ [][Next]_vars

(* ------ SpecStore: the mapping store, snapshot writes may fail --------- *)
InitStore == InitFrom({NoFile, Garbled} \cup {FileOf(st) : st \in InitStores})

Names == {"a", ""}

StoreContents(g) == IF g = "" THEN {Text} ELSE {Photo("")}

StorePrivateUpdate ==
  /\ nmsg < MaxStoreUpdates
  /\ \E u \in Users, name \in Names, g \in {"", "1"}, res \in SaveOutcomes :
       \E c \in StoreContents(g) :
         /\ AlbumOk(g, "UG", u)
         /\ HandlePrivate(PrivateMsg(u, g, c), name, res)

StoreGroupUpdate ==
  /\ nmsg < MaxStoreUpdates
  /\ \E g \in {"", "1"}, res \in SaveOutcomes :
       \E sh \in GroupShapes(g), c \in StoreContents(g) :
         /\ AlbumOk(g, "GU", sh[2])
         /\ HandleGroup(GroupMsg(sh[1], sh[2], sh[3], g, c), res)

NextStore ==
  \/ StorePrivateUpdate
  \/ \E res \in SaveOutcomes : TopicCreated(res)
  \/ \E res \in SaveOutcomes : TopicFailed(res)
  \/ HandlerReturn
  \/ StoreGroupUpdate
  \/ \E i \in 1..Len(tasks) : FlushWake(i)
  \/ \E i \in 1..Len(tasks) : FlushSent(i)
  \/ Tick

SpecStore == InitStore /\ [][NextStore]_vars

(* ------ SpecBatch: long albums of one correspondent -------------------- *)
\* correspondent 1 is known, with its topic or degraded
InitBatch ==
  InitFrom({FileOf(st) : st \in
              {x \in SpecStores : \/ x.user_topics[1].topic_id = None
                                  \/ 1 \in DOMAIN x.topic_to_user}})

\* content of the n-th message: the first two of any kind, with or without
\* caption, the others plain photos
BatchContents(n) ==
  CASE n = 1 -> {Photo(""), Photo("x"), Video("x"), Document(""), Voice(""), Voice("x")}
    [] n = 2 -> {Photo(""), Video("y"), Voice("y")}
    [] OTHER -> {Photo("")}

AlbumUpdate ==
  /\ nmsg < MaxBatch
  /\ (tasks # <<>> /\ tasks[1].pc # "sleep") => nmsg - Len(tasks[1].enq) < MaxLate
  /\ \E c \in BatchContents(nmsg + 1) :
       HandlePrivate(PrivateMsg(1, "1", c), "a", "ok")

NextBatch ==
  \/ AlbumUpdate
  \/ \E i \in 1..Len(tasks) : FlushWake(i)
  \/ \E i \in 1..Len(tasks) : FlushSent(i)
  \/ Tick

SpecBatch == InitBatch /\ [][NextBatch]_vars

(* ------ SpecLive: albums under a fair event loop ------------------------ *)
\* album members of either direction; a voice message can be one of them
LiveContents == {Photo(""), Voice("")}

LivePrivateUpdate ==
  /\ nmsg < MaxLiveUpdates
  /\ \E u \in Users, c \in LiveContents :
       /\ AlbumOk("1", "UG", u)
       /\ HandlePrivate(PrivateMsg(u, "1", c), "a", "ok")

LiveGroupUpdate ==
  /\ nmsg < MaxLiveUpdates
  /\ \E t \in 1..(nextTopic - 1), c \in LiveContents :
       /\ AlbumOk("2", "GU", t)
       /\ HandleGroup(GroupMsg(GROUP_CHAT_ID, t, BOT_ID, "2", c), "ok")

FlushWakes == \E i \in 1..Len(tasks) : FlushWake(i)

FlushSends == \E i \in 1..Len(tasks) : FlushSent(i)

NextLive ==
  \/ LivePrivateUpdate
  \/ TopicCreated("ok")
  \/ TopicFailed("ok")
  \/ LiveGroupUpdate
  \/ FlushWakes
  \/ FlushSends
  \/ Tick

\* the event loop: time passes, a task whose sleep is over is resumed, and
\* an awaited transport call returns
SpecLive ==
  /\ Init
  /\ [][NextLive]_vars
  /\ WF_vars(Tick)
  /\ WF_vars(FlushWakes)
  /\ WF_vars(FlushSends)

(* ------ SpecFlush: the flush coroutines on their own -------------------- *)
\* process_media_group_UG / _GU as functions of their key and of the two
\* module-level dictionaries: tasks are scheduled for keys whose buffer is
\* absent, empty or holds one photo, registered or not.  The handlers
\* schedule a task only after the append of line 184 / 252, so that of these
\* states only those where every task is registered and has its buffer
\* occur under Spec, SpecStore, SpecBatch and SpecLive.
FlushKeys == {KeyOf("UG", "1"), KeyOf("GU", "1")}

FlushBuffers(k) ==
  {<<>>, <<Message(IF k = KeyOf("UG", "1") THEN 1 ELSE 2, 1, 1, None, None, "1", Photo(""))>>}

FlushTask(k) == NewTask(IF k = KeyOf("UG", "1") THEN "UG" ELSE "GU", k, 1, "a")

InitFlush ==
  /\ tasks \in UNION {[1..n -> {FlushTask(k) : k \in FlushKeys}] : n \in 1..MaxFlushTasks}
  /\ \E S \in SUBSET FlushKeys :
       media_groups \in {f \in [S -> UNION {FlushBuffers(k) : k \in S}] :
                           \A k \in S : f[k] \in FlushBuffers(k)}
  /\ \E S \in SUBSET FlushKeys : media_group_tasks \in [S -> 1..Len(tasks)]
  /\ disk = NoFile
  /\ user_topics = load_maps(disk).user_topics
  /\ topic_to_user = load_maps(disk).topic_to_user
  /\ handler = Idle
  /\ out = <<>>
  /\ last = Ev("init", "", "", 0, None, None, "")
  /\ nextTopic = Cardinality(InitTopics) + 1
  /\ nmsg = Cardinality(FlushKeys)
  /\ created = [u \in Users |-> 0]
  /\ nsaves = 0
  /\ flushed = <<>>
  /\ owner = <<>>
  /\ inbound = NoMsg

NextFlush ==
  \/ FlushWakes
  \/ FlushSends
  \/ Tick

SpecFlush == InitFlush /\ [][NextFlush]_vars

(* ------ SpecSingle: single messages of every content -------------------- *)
\* the handlers read msg.text, msg.photo, msg.video, msg.document and
\* msg.voice one after the other: every combination of them is delivered,
\* the empty one (a sticker, a location) included
SingleContents ==
  {Content(t, p, v, d, o, "") : t \in BOOLEAN, p \in BOOLEAN, v \in BOOLEAN,
                                d \in BOOLEAN, o \in BOOLEAN}

SinglePrivateUpdate ==
  /\ nmsg < MaxSingleUpdates
  /\ \E u \in Users, c \in SingleContents :
       HandlePrivate(PrivateMsg(u, "", c), "a", "ok")

SingleGroupUpdate ==
  /\ nmsg < MaxSingleUpdates
  /\ \E sh \in GroupShapes(""), c \in SingleContents :
       HandleGroup(GroupMsg(sh[1], sh[2], sh[3], "", c), "ok")

NextSingle ==
  \/ SinglePrivateUpdate
  \/ TopicCreated("ok")
  \/ TopicFailed("ok")
  \/ HandlerReturn
  \/ SingleGroupUpdate

SpecSingle == Init /\ [][NextSingle]_vars

(* ============================== claims ================================= *)
Active(t) == t.pc \in {"sleep", "send"}

Ids(msgs) == [j \in 1..Len(msgs) |-> msgs[j].id]

Eligible(m) == m.photo \/ m.video \/ m.document

\* the entries of a flush in call order: those sent, then those still to send
Batch(t) == Flatten(t.calls) \o Flatten(t.parts)

Degraded(u) == IF u \in DOMAIN user_topics THEN user_topics[u].topic_id = None ELSE FALSE

Holders(T) == {u \in DOMAIN user_topics : user_topics[u].topic_id = T}

\* the step handled a group message that passed the checks of lines 232-234
AuthorizedReplyStep ==
  /\ nmsg' = nmsg + 1
  /\ last'.op \in {"group", "group_repair"}
  /\ last'.route # "discarded"

(* ---- C1 ---- *)
\* C1: a key is flushed at most once: no key ever has two flushes that took
\* a non-empty buffer, whenever its members arrive.
C1_FlushedAtMostOnce == \A k \in DOMAIN flushed : flushed[k] <= 1

(* ---- C2 ---- *)
\* C2: the check "key not in media_group_tasks" and the registration are
\* one step, so a key never gets a second task while one is registered:
\* every task that still sleeps is the one registered for its key, and
\* every buffered key has exactly that one task.
C2_OneRegisteredTask ==
  /\ \A i \in 1..Len(tasks) :
       tasks[i].pc = "sleep" =>
         /\ tasks[i].key \in DOMAIN media_group_tasks
         /\ media_group_tasks[tasks[i].key] = i
  /\ \A k \in DOMAIN media_groups :
       Cardinality({i \in 1..Len(tasks) : tasks[i].key = k /\ tasks[i].pc = "sleep"}) = 1

\* a second member arrived for a key whose task was registered
W_C2 ==
  /\ last.route = "enqueue"
  /\ last.key \in DOMAIN media_groups
  /\ Len(media_groups[last.key]) >= 2
  /\ last.key \in DOMAIN media_group_tasks

(* ---- C3 ---- *)
\* C3: no two flush tasks of one key are in progress at the same time, a
\* task being in progress from its creation to the return of its last
\* send_media_group call.
C3_OneActiveTask ==
  \A i, j \in 1..Len(tasks) :
    (i # j /\ tasks[i].key = tasks[j].key) => ~(Active(tasks[i]) /\ Active(tasks[j]))

(* ---- C4 ---- *)
\* C4: fixed deadline: a task wakes Delay ticks after the first member was
\* enqueued, whatever arrives meanwhile; until then every member that
\* arrived is in the buffer, and the flush takes all of them, once.
C4_FixedDeadline ==
  /\ \A i \in 1..Len(tasks) :
       LET t == tasks[i]
       IN  /\ t.enq # <<>>
           /\ t.lastAt <= Delay
           /\ t.pc = "sleep" =>
                /\ t.born + t.timer = Delay
                /\ t.key \in DOMAIN media_groups
                /\ Ids(media_groups[t.key]) = t.enq
           /\ t.pc # "sleep" =>
                /\ t.born = Delay
                /\ Ids(t.msgs) = t.enq
  /\ \A i, j \in 1..Len(tasks) :
       i # j => \A a \in 1..Len(tasks[i].msgs), b \in 1..Len(tasks[j].msgs) :
                  tasks[i].msgs[a].id # tasks[j].msgs[b].id

\* a flush took three members, the last of which came inside the window
\* but after the first
W_C4 ==
  \E i \in 1..Len(tasks) :
    /\ tasks[i].pc # "sleep"
    /\ Len(tasks[i].msgs) >= 3
    /\ tasks[i].lastAt > 0
    /\ tasks[i].lastAt < Delay

(* ---- C9 ---- *)
\* C9: once a correspondent's record has no topic, no step calls
\* create_forum_topic for it, and every call that forwards its messages to
\* the group (single send or album chunk) goes to the root: no thread id.
C9_DegradedStaysAtRoot ==
  [][\A u \in Users :
       Degraded(u) =>
         /\ created'[u] = created[u]
         /\ Degraded(u)'
         /\ \A j \in 1..Len(out') :
              (u \in out'[j].origin /\ out'[j].chat_id = GROUP_CHAT_ID) =>
                /\ out'[j].op # "create_forum_topic"
                /\ out'[j].thread = None]_vars

\* the creation failed once for a correspondent, and an album of two of its
\* messages is flushed to the root of the group
W_C9 ==
  \E u \in Users :
    /\ Degraded(u)
    /\ created[u] = 1
    /\ last.op = "flush"
    /\ Len(out) = 1
    /\ out[1].op = "send_media_group"
    /\ out[1].origin = {u}
    /\ Len(out[1].media) >= 2
    /\ out[1].thread = None

(* ---- C5 ---- *)
\* the first non-empty caption in arrival order, "" if there is none
RECURSIVE EffectiveCaption(_)
EffectiveCaption(msgs) ==
  IF msgs = <<>> THEN ""
  ELSE IF Head(msgs).caption # "" THEN Head(msgs).caption
  ELSE EffectiveCaption(Tail(msgs))

\* C5: caption hoisting: whatever the kinds and captions of the payloads,
\* the first entry of the batch carries the effective caption and every
\* other entry the empty caption.
C5_CaptionHoisted ==
  \A i \in 1..Len(tasks) :
    tasks[i].pc # "sleep" =>
      \A j \in 1..Len(Batch(tasks[i])) :
        Batch(tasks[i])[j].caption =
          IF j = 1 THEN EffectiveCaption(tasks[i].msgs) ELSE ""

(* ---- C6 ---- *)
\* C6: the entries of a flush, chunks concatenated in call order, are the
\* photo/video/document payloads of the buffer in arrival order, each once:
\* the buffer holds the members in the order they were enqueued, the flush
\* takes it whole, and when the task ends every chunk has been sent.
C6_ArrivalOrderKept ==
  \A i \in 1..Len(tasks) :
    LET t == tasks[i]
    IN  /\ \A a, b \in 1..Len(t.enq) : a < b => t.enq[a] < t.enq[b]
        /\ (t.pc = "sleep" /\ t.key \in DOMAIN media_groups) =>
             Ids(media_groups[t.key]) = t.enq
        /\ t.pc # "sleep" =>
             /\ Ids(t.msgs) = t.enq
             /\ [j \in 1..Len(Batch(t)) |-> Batch(t)[j].media] =
                  Ids(SelectSeq(t.msgs, Eligible))
        /\ t.pc = "done" =>
             /\ t.parts = <<>>
             /\ [j \in 1..Len(Flatten(t.calls)) |-> Flatten(t.calls)[j].media] =
                  Ids(SelectSeq(t.msgs, Eligible))

\* a task ended after two or more calls, for a buffer that also held a
\* payload of another kind
W_C6 ==
  \E i \in 1..Len(tasks) :
    /\ tasks[i].pc = "done"
    /\ Len(tasks[i].calls) >= 2
    /\ \E j \in 1..Len(tasks[i].msgs) : ~Eligible(tasks[i].msgs[j])

(* ---- C7 ---- *)
\* ceil(n / 10)
Ceil10(n) == CHOOSE c \in 0..n : 10 * c >= n /\ (c = 0 \/ 10 * (c - 1) < n)

\* C7: n eligible entries give ceil(n/10) send_media_group calls, each of
\* 1 to 10 entries and all but the last of 10, whose concatenation is the
\* entry sequence; when the task ends all of them have been issued.
C7_Chunking ==
  \A i \in 1..Len(tasks) :
    tasks[i].pc # "sleep" =>
      LET t == tasks[i]
          all == t.calls \o t.parts
          n == Len(SelectSeq(t.msgs, Eligible))
      IN  /\ Len(all) = Ceil10(n)
          /\ \A j \in 1..Len(all) :
               /\ Len(all[j]) >= 1
               /\ Len(all[j]) <= 10
               /\ j < Len(all) => Len(all[j]) = 10
          /\ Flatten(all) = media_all(t.msgs)
          /\ Len(Flatten(all)) = n
          /\ t.pc = "done" => Len(t.calls) = Ceil10(n)

\* 23 entries went out as three calls of 10, 10 and 3
W_C7 ==
  \E i \in 1..Len(tasks) :
    /\ tasks[i].pc = "done"
    /\ Len(tasks[i].calls) = 3
    /\ Len(tasks[i].calls[1]) = 10
    /\ Len(tasks[i].calls[2]) = 10
    /\ Len(tasks[i].calls[3]) = 3

(* ---- C8 ---- *)
\* C8: self-healing reverse lookup: an authorized reply in a thread that
\* the reverse index lacks but a record holds puts the thread into the
\* reverse index, calls save_maps (the file then holds both maps, unless
\* the write failed) and routes the reply to the holder of the record: a
\* single send to it, or an album buffer whose task targets it.
C8_SelfHealing ==
  [][(/\ AuthorizedReplyStep
      /\ last'.thread \notin DOMAIN topic_to_user
      /\ Holders(last'.thread) # {})
     => LET T == last'.thread
            u == CHOOSE x \in Holders(T) : TRUE
        IN  /\ Holders(T) = {u}
            /\ topic_to_user' = DictPut(topic_to_user, T, u)
            /\ user_topics' = user_topics
            /\ nsaves' = nsaves + 1
            /\ last'.saved = "ok" =>
                 /\ load_maps(disk').user_topics = user_topics'
                 /\ load_maps(disk').topic_to_user = topic_to_user'
            /\ last'.user = u
            /\ \/ /\ last'.route = "single"
                  /\ Len(out') = 1
                  /\ out'[1].chat_id = u
                  /\ out'[1].media = nmsg'
               \/ /\ last'.route \in {"enqueue", "enqueue_new"}
                  /\ out' = <<>>
                  /\ last'.key \in DOMAIN media_group_tasks'
                  /\ tasks'[media_group_tasks'[last'.key]].target = u
                  /\ media_groups'[last'.key][Len(media_groups'[last'.key])].id = nmsg'
               \/ /\ last'.route = "ignored"
                  /\ out' = <<>>]_vars

\* a reply was routed to a correspondent after the repair of the index
W_C8 ==
  /\ last.op = "group_repair"
  /\ last.route = "single"
  /\ last.thread \in DOMAIN topic_to_user
  /\ topic_to_user[last.thread] = last.user
  /\ Len(out) = 1
  /\ out[1].chat_id = last.user

(* ---- C10 ---- *)
\* C10: unroutable drop: an authorized reply in a thread that neither the
\* reverse index nor any record knows sends nothing, buffers nothing,
\* registers no task and leaves both maps and the file as they were.
C10_UnroutableDrop ==
  [][(/\ AuthorizedReplyStep
      /\ last'.thread \notin DOMAIN topic_to_user
      /\ Holders(last'.thread) = {})
     => /\ out' = <<>>
        /\ handler' = Idle
        /\ UNCHANGED <<media_groups, media_group_tasks, tasks, user_topics,
                       topic_to_user, disk, nsaves>>]_vars

\* a reply was dropped as unroutable while the store knew a correspondent
W_C10 ==
  /\ last.route = "unroutable"
  /\ last.thread # None
  /\ user_topics # <<>>

(* ---- C11 ---- *)
InBuffer(n) ==
  \E k \in DOMAIN media_groups :
    \E j \in 1..Len(media_groups[k]) : media_groups[k][j].id = n

\* a flush task took the payload out of its buffer to dispatch it
Taken(n) ==
  \E i \in 1..Len(tasks) :
    /\ tasks[i].pc # "sleep"
    /\ \E j \in 1..Len(tasks[i].msgs) : tasks[i].msgs[j].id = n

\* where the i-th flush task stands, "none" while it does not exist
TaskPc(i) == IF i <= Len(tasks) THEN tasks[i].pc ELSE "none"

\* C11: under a fair event loop and with transport calls that return, every
\* payload put into a buffer is eventually taken by a flush task, and every
\* flush task that was scheduled runs to its end.
C11_EventuallyFlushed ==
  /\ \A n \in 1..MaxLiveUpdates : InBuffer(n) ~> Taken(n)
  /\ \A i \in 1..MaxLiveUpdates :
       (TaskPc(i) = "sleep") ~> (TaskPc(i) = "done")

\* two tasks of one key ended, each having taken a payload: the second
\* payload came after the first flush
W_C11 ==
  \E i, j \in 1..Len(tasks) :
    /\ i < j
    /\ tasks[i].key = tasks[j].key
    /\ tasks[i].pc = "done" /\ tasks[i].msgs # <<>>
    /\ tasks[j].pc = "done" /\ tasks[j].msgs # <<>>

(* ---- C12 ---- *)
\* the file, read back, gives the two dictionaries as they are in memory
StoreOnDisk ==
  /\ load_maps(disk).user_topics = user_topics
  /\ load_maps(disk).topic_to_user = topic_to_user

\* C12: synchronous persist: the file agrees with the dictionaries when
\* polling starts; no step changes a dictionary without calling save_maps
\* before its next await; and after a step whose save_maps call wrote the
\* file, the file agrees with the dictionaries again.
C12_SynchronousPersist ==
  /\ StoreOnDisk
  /\ [][/\ nsaves' = nsaves =>
             UNCHANGED <<user_topics, topic_to_user, disk>>
        /\ (nsaves' # nsaves /\ last'.saved = "ok") => StoreOnDisk']_vars

\* a thread was created and saved after an earlier save_maps call of the
\* run, and the file holds the new record and its reverse entry
W_C12 ==
  /\ last.op = "created"
  /\ last.saved = "ok"
  /\ nsaves >= 2
  /\ StoreOnDisk
  /\ last.thread \in DOMAIN load_maps(disk).topic_to_user

(* ---- C13 ---- *)
\* C13: mapping round trip: whatever the two dictionaries hold, the file
\* save_maps writes for them has their keys as decimal strings, and
\* load_maps reads from it dictionaries equal to them: the same integer
\* keys, topic ids (None included), labels and reverse entries.
C13_RoundTrip ==
  LET file == save_maps(disk, user_topics, topic_to_user, "ok")
  IN  /\ DOMAIN file.user_topics = {ToString(u) : u \in DOMAIN user_topics}
      /\ DOMAIN file.topic_to_user = {ToString(t) : t \in DOMAIN topic_to_user}
      /\ load_maps(file).user_topics = user_topics
      /\ load_maps(file).topic_to_user = topic_to_user
      /\ \A u \in DOMAIN user_topics :
           /\ u \in DOMAIN load_maps(file).user_topics
           /\ load_maps(file).user_topics[u].topic_id = user_topics[u].topic_id
           /\ load_maps(file).user_topics[u].username = user_topics[u].username

\* the file was just written for a store with a record without topic, a
\* record with a topic and a reverse entry, and reads back as the store
W_C13 ==
  /\ last.saved = "ok"
  /\ disk = save_maps(disk, user_topics, topic_to_user, "ok")
  /\ \E u, v \in DOMAIN user_topics :
       /\ user_topics[u].topic_id = None
       /\ user_topics[v].topic_id # None
       /\ user_topics[v].username = "guest"
  /\ topic_to_user # <<>>
  /\ load_maps(disk).user_topics = user_topics
  /\ load_maps(disk).topic_to_user = topic_to_user

(* ---- C14 ---- *)
\* the step delivered an update to handle_group
GroupEventStep ==
  /\ nmsg' = nmsg + 1
  /\ last'.op \in {"group", "group_repair"}

\* C14: staff-reply authorization: a group message that is not inside a
\* thread, or is not a reply to a message of the bot itself, has no effect:
\* nothing is sent, nothing is buffered, no task is registered, and the two
\* dictionaries and the file stay as they were.
C14_UnauthorizedDiscarded ==
  [][(/\ GroupEventStep
      /\ \/ inbound'.thread = None
         \/ inbound'.reply_from # BOT_ID)
     => /\ out' = <<>>
        /\ handler' = Idle
        /\ UNCHANGED <<media_groups, media_group_tasks, tasks, user_topics,
                       topic_to_user, disk, nsaves>>]_vars

\* a reply to a staff member's message, in a thread the reverse index
\* knows, was discarded
W_C14 ==
  /\ last.op = "group"
  /\ inbound.chat_id = GROUP_CHAT_ID
  /\ inbound.thread \in DOMAIN topic_to_user
  /\ inbound.reply_from = BOT_ID - 1
  /\ out = <<>>
  /\ handler = Idle

(* ---- C15 ---- *)
\* C15: a flush that finds the buffer of its key absent or empty is a
\* no-op: it issues no transport call and ends, creates no buffer, and
\* leaves every non-empty buffer, the registration of its key, every other
\* task, the dictionaries and the file as they were.
C15_EmptyFlushNoOp ==
  [][(/\ last'.op = "flush"
      /\ TakeBuffer(media_groups, last'.key) = <<>>)
     => /\ out' = <<>>
        /\ tasks'[last'.task].pc = "done"
        /\ DOMAIN media_groups' \subseteq DOMAIN media_groups
        /\ \A k \in DOMAIN media_groups :
             media_groups[k] # <<>> =>
               /\ k \in DOMAIN media_groups'
               /\ media_groups'[k] = media_groups[k]
               /\ DictGet(media_group_tasks', k) = DictGet(media_group_tasks, k)
        /\ \A j \in 1..Len(tasks) : j # last'.task => tasks'[j] = tasks[j]
        /\ Len(tasks') = Len(tasks)
        /\ UNCHANGED <<user_topics, topic_to_user, disk, handler, flushed>>]_vars

\* a flush found no buffer for its key while another key had a buffered
\* payload and a registered task, both of which are still there
W_C15 ==
  /\ last.op = "flush"
  /\ last.route = "noop"
  /\ out = <<>>
  /\ \E k \in DOMAIN media_groups :
       /\ k # last.key
       /\ media_groups[k] # <<>>
       /\ k \in DOMAIN media_group_tasks
       /\ tasks[media_group_tasks[k]].pc = "sleep"

(* ---- C16 ---- *)
Priority == <<"text", "photo", "video", "document", "voice">>

Carries(m, kind) ==
  CASE kind = "text" -> m.text
    [] kind = "photo" -> m.photo
    [] kind = "video" -> m.video
    [] kind = "document" -> m.document
    [] OTHER -> m.voice

\* the first kind of the priority order the message carries, 0 if none
PriorityIndex(m) ==
  IF \E i \in 1..Len(Priority) : Carries(m, Priority[i])
    THEN CHOOSE i \in 1..Len(Priority) :
           /\ Carries(m, Priority[i])
           /\ \A j \in 1..(i - 1) : ~Carries(m, Priority[j])
    ELSE 0

TransportOps == <<"send_message", "send_photo", "send_video", "send_document", "send_voice">>

Sends(calls) == {j \in 1..Len(calls) : \E i \in 1..Len(TransportOps) : calls[j].op = TransportOps[i]}

\* the step in which a handler reaches the routing of its message: for a
\* private message the step that has the topic (known correspondent, topic
\* created, creation failed), for a group message the step that delivers an
\* authorized reply in a thread that has a correspondent
RoutingStep ==
  \/ last'.op \in {"private", "created", "create_failed"}
  \/ /\ GroupEventStep
     /\ inbound'.chat_id = GROUP_CHAT_ID
     /\ inbound'.thread # None
     /\ inbound'.reply_from = BOT_ID
     /\ inbound'.thread \in DOMAIN topic_to_user \/ Holders(inbound'.thread) # {}

Routed == IF last'.op \in {"created", "create_failed"} THEN handler.msg ELSE inbound'

\* C16: single-item dispatch: a message without album id is sent by
\* exactly one call, of the kind that comes first in text > photo > video >
\* document > voice among those it carries, or by none when it carries none
\* of the five; it is not buffered, and no other step of its handler sends.
C16_SingleDispatch ==
  [][/\ (RoutingStep /\ Routed.group = "") =>
          /\ UNCHANGED <<media_groups, media_group_tasks, tasks>>
          /\ IF PriorityIndex(Routed) = 0
               THEN /\ out' = <<>>
                    /\ handler' = Idle
               ELSE /\ Len(out') = 1
                    /\ out'[1].op = TransportOps[PriorityIndex(Routed)]
                    /\ out'[1].media = Routed.id
                    /\ handler'.pc = "send"
                    /\ handler'.msg = Routed
     /\ (~RoutingStep /\ last'.op \notin {"flush", "sent"}) => Sends(out') = {}
     /\ handler.pc = "send" => (handler' = Idle \/ handler' = handler)]_vars

\* a staff reply that carries a text, a photo and a voice note went out as
\* one send_message call
W_C16 ==
  /\ last.op \in {"group", "group_repair"}
  /\ handler.pc = "send"
  /\ handler.msg.text /\ handler.msg.photo /\ handler.msg.voice
  /\ Len(out) = 1
  /\ out[1].op = "send_message"
  /\ out[1].chat_id \in Users

(* ---- C17 ---- *)
\* C17: correspondent records are append-only: no step removes a record or
\* changes its topic_id, be it a topic or None; a step changes at most the
\* username of the records that exist.
C17_RecordsAppendOnly ==
  [][\A u \in DOMAIN user_topics :
       /\ u \in DOMAIN user_topics'
       /\ user_topics'[u].topic_id = user_topics[u].topic_id
       /\ DOMAIN user_topics'[u] = DOMAIN user_topics[u]]_vars

\* a later message of a correspondent whose record was loaded from the
\* file changed the label of the record and went to the record's topic
W_C17 ==
  \E u \in DOMAIN user_topics :
    /\ created[u] = 0
    /\ user_topics[u].username = "guest"
    /\ user_topics[u].topic_id # None
    /\ last.op = "private"
    /\ last.user = u
    /\ last.thread = user_topics[u].topic_id

(* ---- C18 ---- *)
\* C18: in every state in which another handler or task can run, the keys
\* with a registered task are the keys with a non-empty buffer, and the
\* registered task of a key is a task of that key that still sleeps.
C18_TaskIffBuffer ==
  /\ DOMAIN media_group_tasks = {k \in DOMAIN media_groups : media_groups[k] # <<>>}
  /\ \A k \in DOMAIN media_group_tasks :
       /\ media_group_tasks[k] \in 1..Len(tasks)
       /\ tasks[media_group_tasks[k]].key = k
       /\ tasks[media_group_tasks[k]].pc = "sleep"

\* one key was flushed and has neither buffer nor task any more, while
\* another key has two payloads buffered and its task registered
W_C18 ==
  \E k \in DOMAIN flushed, j \in DOMAIN media_group_tasks :
    /\ k \notin DOMAIN media_groups
    /\ k \notin DOMAIN media_group_tasks
    /\ Len(media_groups[j]) >= 2

(* ---- C19 ---- *)
\* the messages a flush task of the staff-to-correspondent direction holds
Held(t) ==
  IF t.pc = "sleep" THEN TakeBuffer(media_groups, t.key) ELSE t.msgs

\* C19: with fresh thread ids from create_forum_topic, every reverse entry
\* T -> U has the record of U with topic_id T, no two records share a
\* topic, and a staff reply in thread T goes to the correspondent whose
\* record has topic_id T only: as a single send, as the target of the album
\* task that holds it, and as the chat of the album's send_media_group.
C19_ThreadOwnership ==
  /\ \A T \in DOMAIN topic_to_user :
       /\ topic_to_user[T] \in DOMAIN user_topics
       /\ user_topics[topic_to_user[T]].topic_id = T
  /\ \A u, v \in DOMAIN user_topics :
       (u # v /\ user_topics[u].topic_id # None) =>
         user_topics[u].topic_id # user_topics[v].topic_id
  /\ (inbound.chat_id = GROUP_CHAT_ID /\ Sends(out) # {}) =>
       /\ Len(out) = 1
       /\ Holders(inbound.thread) = {out[1].chat_id}
  /\ \A i \in 1..Len(tasks) :
       tasks[i].fn = "GU" =>
         \A j \in 1..Len(Held(tasks[i])) :
           Holders(Held(tasks[i])[j].thread) = {tasks[i].target}
  /\ \A j \in 1..Len(out) :
       (out[j].op = "send_media_group" /\ tasks[last.task].fn = "GU") =>
         out[j].chat_id = tasks[last.task].target

\* both correspondents got their thread in this run, starting without a
\* file, and a staff reply in the second thread went to its correspondent
W_C19 ==
  \E u, v \in DOMAIN user_topics :
    /\ u # v
    /\ created[u] = 1 /\ created[v] = 1
    /\ user_topics[u].topic_id # None
    /\ user_topics[v].topic_id # None
    /\ inbound.chat_id = GROUP_CHAT_ID
    /\ inbound.thread = user_topics[v].topic_id
    /\ Len(out) = 1
    /\ out[1].op = "send_message"
    /\ out[1].chat_id = v

(* ---- C20 ---- *)
\* the thread ids create_forum_topic has handed out
CreatedThreads == (Cardinality(InitTopics) + 1)..(nextTopic - 1)

\* C20: create_forum_topic is called at most once for a correspondent,
\* however many of its messages and album members arrive; a correspondent
\* whose call is over has its record, and every thread the call created
\* belongs to exactly one record, that of a correspondent it was called
\* for, and is in the reverse index.
C20_OneThreadPerCorrespondent ==
  /\ \A u \in Users :
       /\ created[u] <= 1
       /\ (created[u] = 1 /\ ~(handler.pc = "create" /\ handler.msg.from_id = u)) =>
            u \in DOMAIN user_topics
       /\ Cardinality({T \in CreatedThreads : DictGet(topic_to_user, T) = u}) <= created[u]
  /\ \A T \in CreatedThreads :
       /\ T \in DOMAIN topic_to_user
       /\ Holders(T) = {topic_to_user[T]}

\* the first album member of a new correspondent had the thread created,
\* and a later member of the album found the record and joined the buffer
W_C20 ==
  \E u \in DOMAIN user_topics :
    /\ created[u] = 1
    /\ user_topics[u].topic_id \in CreatedThreads
    /\ inbound.from_id = u
    /\ last.op = "private"
    /\ last.route = "enqueue"
    /\ Len(media_groups[last.key]) >= 2

====
